---- MODULE Spec2Model ----
(***************************************************************************)
(* Model of core/src/document_renderer.rs: the DocumentRenderer, its       *)
(* generator registry and the generators registered into the templating    *)
(* engine.  Strings are sequences of one-character strings, so that        *)
(* splitting, formatting, parsing and substring search are computed.       *)
(***************************************************************************)
EXTENDS Integers, Sequences, FiniteSets, TLC

(* ------------------------------ bounds -------------------------------- *)
\* number of one-second advances of the wall clock in a run
MaxTicks == 2
\* number of render calls in a run of Spec
MaxRenders == 1
\* number of render calls in a run of SpecRegistry
MaxRegistryRenders == 2
\* largest integer passed as range / sub_rnd_days (besides TwoDigitRange)
MaxRange == 3
\* number of register_generator calls in a run of SpecRegister
MaxRegs == 3
\* a range whose draws reach two decimal digits
TwoDigitRange == 11

(* --------------------------- serde_json Value ------------------------- *)
\* args.get(k) = None
Absent == [t |-> "absent", n |-> 0, s |-> <<>>]
\* a number that is not an integer, e.g. 1.5
FloatV == [t |-> "float", n |-> 0, s |-> <<>>]
\* a boolean argument
BoolV == [t |-> "bool", n |-> 0, s |-> <<>>]
IntV(i) == [t |-> "int", n |-> i, s |-> <<>>]
StrV(str) == [t |-> "str", n |-> 0, s |-> str]

None == [some |-> FALSE, n |-> 0, s |-> <<>>]
SomeN(i) == [some |-> TRUE, n |-> i, s |-> <<>>]
SomeS(str) == [some |-> TRUE, n |-> 0, s |-> str]

\* Value::as_u64: Some only for a non-negative integer number
as_u64(v) == IF v.t = "int" /\ v.n >= 0 THEN SomeN(v.n) ELSE None
\* Value::as_str: Some only for a string
as_str(v) == IF v.t = "str" THEN SomeS(v.s) ELSE None
\* serde_json::from_value::<i64>: Ok only for an integer number
from_value_i64(v) == IF v.t = "int" THEN SomeN(v.n) ELSE None

(* ------------------------------ strings ------------------------------- *)
Digits == <<"0", "1", "2", "3", "4", "5", "6", "7", "8", "9">>
DigitChar(d) == Digits[d + 1]
DigitVal(c) == CHOOSE d \in 0..9 : Digits[d + 1] = c
IsDigit(c) == \E d \in 0..9 : Digits[d + 1] = c

RECURSIVE to_string(_)
\* u64::to_string: decimal digits, no padding
to_string(n) == IF n < 10 THEN <<DigitChar(n)>>
                ELSE Append(to_string(n \div 10), DigitChar(n % 10))

\* zero-padded decimal of width w (strftime %Y %m %d %H %M %S)
RECURSIVE Pad(_, _)
Pad(n, w) == IF w = 0 THEN <<>> ELSE Append(Pad(n \div 10, w - 1), DigitChar(n % 10))

RECURSIVE ParseNat(_)
ParseNat(str) == IF str = <<>> THEN 0
                 ELSE 10 * ParseNat(SubSeq(str, 1, Len(str) - 1)) + DigitVal(str[Len(str)])

IsDecimal(str) == Len(str) >= 1 /\ \A i \in 1..Len(str) : IsDigit(str[i])

\* str::contains
Contains(str, sub) ==
    \E i \in 0..(Len(str) - Len(sub)) : SubSeq(str, i + 1, i + Len(sub)) = sub

RECURSIVE SplitAcc(_, _, _)
SplitAcc(str, cur, acc) ==
    IF str = <<>> THEN Append(acc, cur)
    ELSE IF Head(str) = "|" THEN SplitAcc(Tail(str), <<>>, Append(acc, cur))
    ELSE SplitAcc(Tail(str), Append(cur, Head(str)), acc)

\* str::split("|").collect::<Vec<&str>>(): one more piece than separators
split(str) == SplitAcc(str, <<>>, <<>>)

(* ---------------------------- chrono ---------------------------------- *)
SecsPerDay == 86400

\* proleptic Gregorian date of a day number counted from 1970-01-01
CivilFromDays(days) ==
    LET z == days + 719468
        era == z \div 146097
        doe == z - era * 146097
        yoe == (doe - doe \div 1460 + doe \div 36524 - doe \div 146096) \div 365
        doy == doe - (365 * yoe + yoe \div 4 - yoe \div 100)
        mp == (5 * doy + 2) \div 153
        d == doy - (153 * mp + 2) \div 5 + 1
        m == IF mp < 10 THEN mp + 3 ELSE mp - 9
        y == yoe + era * 400 + (IF m <= 2 THEN 1 ELSE 0)
    IN  [y |-> y, m |-> m, d |-> d]

DaysFromCivil(y0, m, d) ==
    LET y == IF m <= 2 THEN y0 - 1 ELSE y0
        era == y \div 400
        yoe == y - era * 400
        doy == (153 * (IF m > 2 THEN m - 3 ELSE m + 9) + 2) \div 5 + d - 1
        doe == yoe * 365 + yoe \div 4 - yoe \div 100 + doy
    IN  era * 146097 + doe - 719468

\* DateTime<Utc>::format(FORMAT_ISO) with FORMAT_ISO = "%FT%T%z"
FORMAT_ISO(t) ==
    LET c == CivilFromDays(t \div SecsPerDay)
        sod == t % SecsPerDay
    IN  Pad(c.y, 4) \o <<"-">> \o Pad(c.m, 2) \o <<"-">> \o Pad(c.d, 2) \o <<"T">>
        \o Pad(sod \div 3600, 2) \o <<":">> \o Pad((sod % 3600) \div 60, 2) \o <<":">>
        \o Pad(sod % 60, 2) \o <<"+", "0", "0", "0", "0">>

\* the instant a "%FT%T%z" text denotes (the reading a caller parses back)
ParseIso(str) ==
    DaysFromCivil(ParseNat(SubSeq(str, 1, 4)), ParseNat(SubSeq(str, 6, 7)),
                  ParseNat(SubSeq(str, 9, 10))) * SecsPerDay
    + ParseNat(SubSeq(str, 12, 13)) * 3600 + ParseNat(SubSeq(str, 15, 16)) * 60
    + ParseNat(SubSeq(str, 18, 19))

\* faulty variant of the offset: Duration::weeks in place of Duration::days
DurationWeeks(k) == k * 7 * SecsPerDay

\* chrono::Duration::days
DurationDays(k) == k * SecsPerDay

(* ------------------------------ rand ---------------------------------- *)
\* faulty variant of the draw: the inclusive range lo..=hi
gen_range_inclusive(lo, hi) == lo..hi

\* Rng::gen_range(lo..hi): the values a draw can take; empty range panics
gen_range(lo, hi) == lo..(hi - 1)
\* no random draw was made by the call
NoDraw == 0 - 1

(* ----------------------- generator call results ----------------------- *)
\* Ok(value): the generator returned a string value
Ok(str) == [kind |-> "ok", val |-> str]
\* Err("".into()): a tera::Error returned by the generator
Err == [kind |-> "err", val |-> <<>>]
\* unwrap() on None / gen_range on an empty range: the thread panics
Panic == [kind |-> "panic", val |-> <<>>]
\* one possible run of a generator: the value drawn from the rng and the result
Res(d, o) == [draw |-> d, out |-> o]

\* the argument map handed to a generator by the templating engine
NoArgs == [sub_rnd_days |-> Absent, range |-> Absent, options |-> Absent]

\* faulty variant of date: without sub_rnd_days it still subtracts an offset
date_stale(args, clk) ==
    LET v == args.sub_rnd_days
    IN  IF v.t = "absent" THEN {Res(NoDraw, Ok(FORMAT_ISO(clk - 1)))}
        ELSE IF ~from_value_i64(v).some THEN {Res(NoDraw, Err)}
        ELSE IF gen_range(0, v.n) = {} THEN {Res(NoDraw, Panic)}
        ELSE {Res(k, Ok(FORMAT_ISO(clk - DurationDays(k)))) : k \in gen_range(0, v.n)}

(* ------------------------------ date ---------------------------------- *)
date(args, clk) ==
    LET v == args.sub_rnd_days
    IN  IF v.t = "absent" THEN {Res(NoDraw, Ok(FORMAT_ISO(clk)))}
        ELSE IF ~from_value_i64(v).some THEN {Res(NoDraw, Err)}
        ELSE IF gen_range(0, v.n) = {} THEN {Res(NoDraw, Panic)}
        ELSE {Res(k, Ok(FORMAT_ISO(clk - DurationDays(k)))) : k \in gen_range(0, v.n)}

(* ------------------------------- now ---------------------------------- *)
now(clk) == {Res(NoDraw, Ok(FORMAT_ISO(clk)))}

(* ------------------------------- hash --------------------------------- *)
HashLen == 16
\* a sample of the Alphanumeric distribution
HashChars == {"a", "Z", "7"}
\* sample_iter(&Alphanumeric).take(16): each draw is shown repeating one character
hash == {Res(NoDraw, Ok([i \in 1..HashLen |-> c])) : c \in HashChars}

\* faulty variant of random_value: a missing or non-string options is an error
random_value_strict(args) ==
    IF args.options.t = "absent" THEN {Res(NoDraw, Err)}
    ELSE IF ~as_str(args.options).some THEN {Res(NoDraw, Err)}
    ELSE LET options == split(as_str(args.options).s)
         IN  {Res(i - 1, Ok(options[i])) : i \in 1..Len(options)}

(* --------------------------- random_value ----------------------------- *)
random_value(args) ==
    IF args.options.t = "absent" THEN {Res(NoDraw, Ok(<<>>))}
    ELSE IF ~as_str(args.options).some THEN {Res(NoDraw, Ok(<<>>))}
    ELSE LET options == split(as_str(args.options).s)
         IN  IF options = <<>> THEN {Res(NoDraw, Ok(<<>>))}
             ELSE {Res(i - 1, Ok(options[i])) : i \in 1..Len(options)}

(* ------------------------------ chance -------------------------------- *)
\* options.get(i).unwrap()
GetUnwrap(options, i) == IF i < Len(options) THEN Ok(options[i + 1]) ELSE Panic

\* faulty variant of the pick: the two branches exchanged
ChancePickSwapped(c, options) ==
    IF c = 0 THEN GetUnwrap(options, 1) ELSE GetUnwrap(options, 0)

ChancePick(c, options) == IF c = 0 THEN GetUnwrap(options, 0) ELSE GetUnwrap(options, 1)

chance(args) ==
    IF args.range.t = "absent" \/ ~as_u64(args.range).some THEN {Res(NoDraw, Panic)}
    ELSE IF args.options.t = "absent" \/ ~as_str(args.options).some
         THEN {Res(NoDraw, Panic)}
    ELSE IF gen_range(0, as_u64(args.range).n) = {} THEN {Res(NoDraw, Panic)}
    ELSE {Res(c, ChancePick(c, split(as_str(args.options).s)))
             : c \in gen_range(0, as_u64(args.range).n)}

\* variant of randomint that validates range and returns an error
randomint_validated(args) ==
    IF ~as_u64(args.range).some \/ as_u64(args.range).n = 0 THEN {Res(NoDraw, Err)}
    ELSE {Res(d, Ok(to_string(d))) : d \in gen_range(0, as_u64(args.range).n)}

(* ----------------------------- randomint ------------------------------ *)
randomint(args) ==
    LET v == IF args.range.t = "absent" THEN StrV(<<"0">>) ELSE args.range
    IN  IF ~as_u64(v).some THEN {Res(NoDraw, Panic)}
        ELSE IF gen_range(0, as_u64(v).n) = {} THEN {Res(NoDraw, Panic)}
        ELSE {Res(d, Ok(to_string(d))) : d \in gen_range(0, as_u64(v).n)}

(* --------------------------- fake-data generators --------------------- *)
\* a sample of the values $p().fake::<String>() yields
FakeStrings == {<<"f", "1">>, <<"f", "2">>}
faker == {Res(NoDraw, Ok(str)) : str \in FakeStrings}

\* the closures bound by register_generators, by the name they are registered under
CoreFns == {"date", "now", "hash", "random_value", "chance", "randomint"}

\* Function::call of the function value fn
Invoke(fn, args, clk) ==
    CASE fn = "date" -> date(args, clk)
      [] fn = "now" -> now(clk)
      [] fn = "hash" -> hash
      [] fn = "random_value" -> random_value(args)
      [] fn = "chance" -> chance(args)
      [] fn = "randomint" -> randomint(args)
      [] OTHER -> faker

(* ----------------------------- the registry --------------------------- *)
\* the register_generator calls of register_generators, in source order
GeneratorTable == <<
    [name |-> "date", desc |-> "Generates random date. Optional negative offset can be passed to specify the amount of days to be subtracted, via 'sub_rnd_days' param.", fn |-> "date"],
    [name |-> "now", desc |-> "Current date", fn |-> "now"],
    [name |-> "hash", desc |-> "16-character long alpha-num hash", fn |-> "hash"],
    [name |-> "random_value", desc |-> "Get random value from set configured with the 'options' parameter, eg. options='a|b|c'", fn |-> "random_value"],
    [name |-> "chance", desc |-> "Roll a dice within range, if 0 is rolled then return first option, else 2nd", fn |-> "chance"],
    [name |-> "randomint", desc |-> "Roll a dice within a range", fn |-> "randomint"],
    [name |-> "digit", desc |-> "fake::faker::number::en::Digit", fn |-> "fake::faker::number::en::Digit"],
    [name |-> "username", desc |-> "fake::faker::internet::en::Username", fn |-> "fake::faker::internet::en::Username"],
    [name |-> "domainsuffix", desc |-> "fake::faker::internet::en::DomainSuffix", fn |-> "fake::faker::internet::en::DomainSuffix"],
    [name |-> "ipv4", desc |-> "fake::faker::internet::en::IPv4", fn |-> "fake::faker::internet::en::IPv4"],
    [name |-> "ipv6", desc |-> "fake::faker::internet::en::IPv6", fn |-> "fake::faker::internet::en::IPv6"],
    [name |-> "ip", desc |-> "fake::faker::internet::en::IP", fn |-> "fake::faker::internet::en::IP"],
    [name |-> "macaddress", desc |-> "fake::faker::internet::en::MACAddress", fn |-> "fake::faker::internet::en::MACAddress"],
    [name |-> "freeemail", desc |-> "fake::faker::internet::en::FreeEmail", fn |-> "fake::faker::internet::en::FreeEmail"],
    [name |-> "safeemail", desc |-> "fake::faker::internet::en::SafeEmail", fn |-> "fake::faker::internet::en::SafeEmail"],
    [name |-> "freeemailprovider", desc |-> "fake::faker::internet::en::FreeEmailProvider", fn |-> "fake::faker::internet::en::FreeEmailProvider"],
    [name |-> "word", desc |-> "fake::faker::lorem::en::Word", fn |-> "fake::faker::lorem::en::Word"],
    [name |-> "firstname", desc |-> "fake::faker::name::en::FirstName", fn |-> "fake::faker::name::en::FirstName"],
    [name |-> "lastname", desc |-> "fake::faker::name::en::LastName", fn |-> "fake::faker::name::en::LastName"],
    [name |-> "title", desc |-> "fake::faker::name::en::Title", fn |-> "fake::faker::name::en::Title"],
    [name |-> "suffix", desc |-> "fake::faker::name::en::Suffix", fn |-> "fake::faker::name::en::Suffix"],
    [name |-> "name", desc |-> "fake::faker::name::en::Name", fn |-> "fake::faker::name::en::Name"],
    [name |-> "namewithtitle", desc |-> "fake::faker::name::en::NameWithTitle", fn |-> "fake::faker::name::en::NameWithTitle"],
    [name |-> "filepath", desc |-> "fake::faker::filesystem::en::FilePath", fn |-> "fake::faker::filesystem::en::FilePath"],
    [name |-> "filename", desc |-> "fake::faker::filesystem::en::FileName", fn |-> "fake::faker::filesystem::en::FileName"],
    [name |-> "fileextension", desc |-> "fake::faker::filesystem::en::FileExtension", fn |-> "fake::faker::filesystem::en::FileExtension"],
    [name |-> "dirpath", desc |-> "fake::faker::filesystem::en::DirPath", fn |-> "fake::faker::filesystem::en::DirPath"],
    [name |-> "companysuffix", desc |-> "fake::faker::company::en::CompanySuffix", fn |-> "fake::faker::company::en::CompanySuffix"],
    [name |-> "companyname", desc |-> "fake::faker::company::en::CompanyName", fn |-> "fake::faker::company::en::CompanyName"],
    [name |-> "buzzword", desc |-> "fake::faker::company::en::Buzzword", fn |-> "fake::faker::company::en::Buzzword"],
    [name |-> "buzzwordmiddle", desc |-> "fake::faker::company::en::BuzzwordMiddle", fn |-> "fake::faker::company::en::BuzzwordMiddle"],
    [name |-> "buzzwordtail", desc |-> "fake::faker::company::en::BuzzwordTail", fn |-> "fake::faker::company::en::BuzzwordTail"],
    [name |-> "catchphase", desc |-> "fake::faker::company::en::CatchPhase", fn |-> "fake::faker::company::en::CatchPhase"],
    [name |-> "bsverb", desc |-> "fake::faker::company::en::BsVerb", fn |-> "fake::faker::company::en::BsVerb"],
    [name |-> "bsadj", desc |-> "fake::faker::company::en::BsAdj", fn |-> "fake::faker::company::en::BsAdj"],
    [name |-> "bsnoun", desc |-> "fake::faker::company::en::BsNoun", fn |-> "fake::faker::company::en::BsNoun"],
    [name |-> "bs", desc |-> "fake::faker::company::en::Bs", fn |-> "fake::faker::company::en::Bs"],
    [name |-> "profession", desc |-> "fake::faker::company::en::Profession", fn |-> "fake::faker::company::en::Profession"],
    [name |-> "industry", desc |-> "fake::faker::company::en::Industry", fn |-> "fake::faker::company::en::Industry"],
    [name |-> "cityprefix", desc |-> "fake::faker::address::en::CityPrefix", fn |-> "fake::faker::address::en::CityPrefix"],
    [name |-> "citysuffix", desc |-> "fake::faker::address::en::CitySuffix", fn |-> "fake::faker::address::en::CitySuffix"],
    [name |-> "cityname", desc |-> "fake::faker::address::en::CityName", fn |-> "fake::faker::address::en::CityName"],
    [name |-> "countryname", desc |-> "fake::faker::address::en::CountryName", fn |-> "fake::faker::address::en::CountryName"],
    [name |-> "countrycode", desc |-> "fake::faker::address::en::CountryCode", fn |-> "fake::faker::address::en::CountryCode"],
    [name |-> "streetsuffix", desc |-> "fake::faker::address::en::StreetSuffix", fn |-> "fake::faker::address::en::StreetSuffix"],
    [name |-> "streetname", desc |-> "fake::faker::address::en::StreetName", fn |-> "fake::faker::address::en::StreetName"],
    [name |-> "timezone", desc |-> "fake::faker::address::en::TimeZone", fn |-> "fake::faker::address::en::TimeZone"],
    [name |-> "statename", desc |-> "fake::faker::address::en::StateName", fn |-> "fake::faker::address::en::StateName"],
    [name |-> "stateabbr", desc |-> "fake::faker::address::en::StateAbbr", fn |-> "fake::faker::address::en::StateAbbr"],
    [name |-> "secondaryaddresstype", desc |-> "fake::faker::address::en::SecondaryAddressType", fn |-> "fake::faker::address::en::SecondaryAddressType"],
    [name |-> "secondaryaddress", desc |-> "fake::faker::address::en::SecondaryAddress", fn |-> "fake::faker::address::en::SecondaryAddress"],
    [name |-> "zipcode", desc |-> "fake::faker::address::en::ZipCode", fn |-> "fake::faker::address::en::ZipCode"],
    [name |-> "postcode", desc |-> "fake::faker::address::en::PostCode", fn |-> "fake::faker::address::en::PostCode"],
    [name |-> "buildingnumber", desc |-> "fake::faker::address::en::BuildingNumber", fn |-> "fake::faker::address::en::BuildingNumber"],
    [name |-> "latitude", desc |-> "fake::faker::address::en::Latitude", fn |-> "fake::faker::address::en::Latitude"],
    [name |-> "longitude", desc |-> "fake::faker::address::en::Longitude", fn |-> "fake::faker::address::en::Longitude"]
    >>

\* HashMap::insert: add or overwrite
MapInsert(map, k, v) == (k :> v) @@ map
\* HashMap::remove
MapRemove(map, k) == [x \in (DOMAIN map) \ {k} |-> map[x]]
EmptyMap == <<>>

\* DocumentRenderer::new: Tera::default() and an empty description map
new == [generators |-> EmptyMap, tera |-> [functions |-> EmptyMap, templates |-> {}]]

\* faulty variant of register_generator: a name already present keeps its entry
register_generator_keep_first(self, name, desc, function) ==
    [generators |-> self.generators @@ (name :> desc),
     tera |-> [self.tera EXCEPT !.functions = @ @@ (name :> function)]]

\* DocumentRenderer::register_generator on the renderer value self
register_generator(self, name, desc, function) ==
    [generators |-> MapInsert(self.generators, name, desc),
     tera |-> [self.tera EXCEPT !.functions = MapInsert(@, name, function)]]

\* faulty variant of get_generators: the renderer's own map is handed out
get_generators_live(self) == [map |-> self.generators, live |-> TRUE]

\* DocumentRenderer::get_generators: a clone, detached from the live map
get_generators(self) == [map |-> self.generators, live |-> FALSE]

(* ----------------------------- templates ------------------------------ *)
\* literal text between placeholders
Text(str) == [k |-> "text", name |-> "", args |-> NoArgs, text |-> str]
\* a placeholder call {{ name(args) }}
Call(name, args) == [k |-> "call", name |-> name, args |-> args, text |-> <<>>]
\* text the templating engine cannot parse, such as an unclosed {{
Bad == [k |-> "bad", name |-> "", args |-> NoArgs, text |-> <<>>]

RangeValues == {Absent, FloatV, StrV(<<"2">>)} \cup {IntV(i) : i \in (0 - 1)..MaxRange}
OptionStrings == {<<>>, <<"a">>, <<"a", "|", "b">>, <<"a", "|", "b", "|", "c">>,
                  <<"b", "|", "b">>, <<"|">>}
OptionValues == {Absent, IntV(1)} \cup {StrV(o) : o \in OptionStrings}
SubDaysValues == {Absent, FloatV, BoolV, StrV(<<"2">>)}
                 \cup {IntV(i) : i \in (0 - 1)..MaxRange}

DateCalls == {Call("date", [NoArgs EXCEPT !.sub_rnd_days = v]) : v \in SubDaysValues}
RandomValueCalls == {Call("random_value", [NoArgs EXCEPT !.options = o]) : o \in OptionValues}
ChanceCalls == {Call("chance", [NoArgs EXCEPT !.range = r, !.options = o])
                   : r \in RangeValues, o \in OptionValues}
RandomIntCalls == {Call("randomint", [NoArgs EXCEPT !.range = r])
                      : r \in RangeValues \cup {IntV(TwoDigitRange)}}
PlainCalls == {Call(GeneratorTable[i].name, NoArgs) : i \in 1..Len(GeneratorTable)}
\* a call of a name no generator is registered under
UnknownCall == Call("nosuch", NoArgs)

\* the template of tests::it_replaces_the_generators_with_values (its two value lines)
TestTemplate == <<
    Text(<<"\"", "@", "t", "i", "m", "e", "s", "t", "a", "m", "p", "\"", ":", " ", "\"">>),
    Call("date", NoArgs),
    Text(<<"\"", ",", " ", "\"", "f", "i", "l", "e", ".", "h", "a", "s", "h", ".", "m", "d", "5", "\"", ":", " ", "\"">>),
    Call("hash", NoArgs),
    Text(<<"\"">>)>>

\* text, a placeholder that succeeds, then one whose generator returns Err
ErrAfterOutput == <<Text(<<"x">>), Call("hash", NoArgs),
                    Call("date", [NoArgs EXCEPT !.sub_rnd_days = StrV(<<"2">>)])>>
\* text, a placeholder that succeeds, then one whose generator panics
PanicAfterOutput == <<Text(<<"x">>), Call("hash", NoArgs), Call("chance", NoArgs)>>
\* an unclosed placeholder after valid text
SyntaxErrorTemplate == <<Text(<<"x">>), Call("hash", NoArgs), Bad>>

Templates ==
    {<<c>> : c \in DateCalls \cup RandomValueCalls \cup ChanceCalls \cup RandomIntCalls
                   \cup PlainCalls \cup {UnknownCall}}
    \cup {TestTemplate, ErrAfterOutput, PanicAfterOutput, SyntaxErrorTemplate}

(* ------------------------------- state -------------------------------- *)
\* 2026-12-31T23:59:58Z, seconds since the epoch
ClockStart == 20818 * SecsPerDay + 86398

VARIABLES
    pc,        \* "registering", "ready", "rendering" (inside render), "aborted" (panicked)
    self,      \* the DocumentRenderer: generators and tera
    regLog,    \* the register_generator calls made so far, in order
    clock,     \* Utc::now(), in whole seconds
    renders,   \* number of render calls made
    tmpl,      \* the template of the current / last render call
    pos,       \* next node of tmpl the engine evaluates
    buf,       \* the engine's output buffer of the current render
    calls,     \* the generator calls of the current / last render, in order
    result,    \* what the last render call returned to its caller
    observed,  \* the caller's own Utc::now().format(FORMAT_ISO) taken after render
    snapshot   \* the map a caller got from get_generators, and what it did to it

vars == <<pc, self, regLog, clock, renders, tmpl, pos, buf, calls, result, observed,
          snapshot>>

NoResult == [kind |-> "none", doc |-> <<>>]
NoObserved == [some |-> FALSE, clk |-> 0, text |-> <<>>]
NoSnapshot == [some |-> FALSE, map |-> EmptyMap, live |-> FALSE, mutated |-> FALSE]

Init ==
    /\ pc = "registering"
    /\ self = new
    /\ regLog = <<>>
    /\ clock = ClockStart
    /\ renders = 0
    /\ tmpl = <<>>
    /\ pos = 1
    /\ buf = <<>>
    /\ calls = <<>>
    /\ result = NoResult
    /\ observed = NoObserved
    /\ snapshot = NoSnapshot

(* ------------------------------ actions ------------------------------- *)
\* DocumentRenderer::register_generators, run by create_renderer after new():
\* the next register_generator call of the table; after the last one
\* create_renderer returns the renderer
register_generators ==
    /\ pc = "registering"
    /\ LET g == GeneratorTable[Len(regLog) + 1]
       IN  /\ self' = register_generator(self, g.name, g.desc, g.fn)
           /\ regLog' = Append(regLog, g)
    /\ pc' = IF Len(regLog) + 1 = Len(GeneratorTable) THEN "ready" ELSE "registering"
    /\ UNCHANGED <<clock, renders, tmpl, pos, buf, calls, result, observed, snapshot>>

\* the wall clock moves on by one second
Tick ==
    /\ pc \in {"ready", "rendering"}
    /\ clock - ClockStart < MaxTicks
    /\ clock' = clock + 1
    /\ UNCHANGED <<pc, self, regLog, renders, tmpl, pos, buf, calls, result, observed,
                   snapshot>>

\* Tera::add_raw_template / templates.remove of the one-off template
OneOff == "__tera_one_off"
AddOneOff(r) == [r EXCEPT !.tera.templates = @ \cup {OneOff}]
RemoveOneOff(r) == [r EXCEPT !.tera.templates = @ \ {OneOff}]

HasSyntaxError(t) == \E i \in 1..Len(t) : t[i].k = "bad"

\* faulty variant of render: the engine's error is dropped with unwrap_or_default
render_unwrap_or_default(r) == [kind |-> "ok", doc |-> r.val]

\* render's match on the engine's result: Ok(document) or Err(anyhow!(err))
render(r) == IF r.kind = "ok" THEN [kind |-> "ok", doc |-> r.val]
             ELSE [kind |-> "err", doc |-> <<>>]

\* render(template) is called: the engine parses the template
RenderCall(templates, max) ==
    /\ pc = "ready"
    /\ renders < max
    /\ \E t \in templates :
         /\ tmpl' = t
         /\ IF HasSyntaxError(t)
            THEN /\ result' = render(Err)
                 /\ pc' = "ready"
                 /\ self' = self
            ELSE /\ result' = NoResult
                 /\ pc' = "rendering"
                 /\ self' = AddOneOff(self)
    /\ renders' = renders + 1
    /\ pos' = 1
    /\ buf' = <<>>
    /\ calls' = <<>>
    /\ observed' = NoObserved
    /\ UNCHANGED <<regLog, clock, snapshot>>

\* the record kept of one generator call
CallRec(node, fn, r) ==
    [name |-> node.name, fn |-> fn, args |-> node.args, clk |-> clock,
     draw |-> r.draw, out |-> r.out]

\* the engine evaluates the next node of the template
RenderNode ==
    /\ pc = "rendering"
    /\ pos <= Len(tmpl)
    /\ LET node == tmpl[pos]
       IN  IF node.k = "text"
           THEN /\ buf' = buf \o node.text
                /\ pos' = pos + 1
                /\ UNCHANGED <<pc, self, calls, result>>
           ELSE IF node.name \notin DOMAIN self.tera.functions
           THEN /\ result' = render(Err)
                /\ pc' = "ready"
                /\ self' = RemoveOneOff(self)
                /\ buf' = <<>>
                /\ UNCHANGED <<pos, calls>>
           ELSE \E r \in Invoke(self.tera.functions[node.name], node.args, clock) :
                /\ calls' = Append(calls, CallRec(node, self.tera.functions[node.name], r))
                /\ CASE r.out.kind = "ok" ->
                          /\ buf' = buf \o r.out.val
                          /\ pos' = pos + 1
                          /\ UNCHANGED <<pc, self, result>>
                     [] r.out.kind = "err" ->
                          /\ result' = render(Err)
                          /\ pc' = "ready"
                          /\ self' = RemoveOneOff(self)
                          /\ buf' = <<>>
                          /\ UNCHANGED pos
                     [] OTHER ->
                          /\ result' = [kind |-> "panic", doc |-> <<>>]
                          /\ pc' = "aborted"
                          /\ buf' = <<>>
                          /\ UNCHANGED <<self, pos>>
    /\ UNCHANGED <<regLog, clock, renders, tmpl, observed, snapshot>>

\* the engine reached the end of the template: render returns the document
RenderReturn ==
    /\ pc = "rendering"
    /\ pos > Len(tmpl)
    /\ result' = render(Ok(buf))
    /\ pc' = "ready"
    /\ self' = RemoveOneOff(self)
    /\ buf' = <<>>
    /\ UNCHANGED <<regLog, clock, renders, tmpl, pos, calls, observed, snapshot>>

\* the caller of a successful render reads Utc::now() and formats it (the test)
UtcNowAfterRender ==
    /\ pc = "ready"
    /\ result.kind = "ok"
    /\ ~observed.some
    /\ observed' = [some |-> TRUE, clk |-> clock, text |-> FORMAT_ISO(clock)]
    /\ UNCHANGED <<pc, self, regLog, clock, renders, tmpl, pos, buf, calls, result,
                   snapshot>>

\* a caller calls get_generators
GetGenerators ==
    /\ pc = "ready"
    /\ snapshot' = [some |-> TRUE, map |-> get_generators(self).map,
                    live |-> get_generators(self).live, mutated |-> FALSE]
    /\ snapshot' # snapshot
    /\ UNCHANGED <<pc, self, regLog, clock, renders, tmpl, pos, buf, calls, result,
                   observed>>

\* what a caller may do to the map it was given
MapEdits(map) == {MapInsert(map, "evil", "x"), MapInsert(map, "date", "x"),
                  MapRemove(map, "date")}

\* the caller changes the map it got; a live map would be the renderer's own
MutateSnapshot ==
    /\ pc \in {"ready", "rendering"}
    /\ snapshot.some
    /\ ~snapshot.mutated
    /\ \E m \in MapEdits(snapshot.map) :
         /\ snapshot' = [snapshot EXCEPT !.map = m, !.mutated = TRUE]
         /\ self' = IF snapshot.live THEN [self EXCEPT !.generators = m] ELSE self
    /\ UNCHANGED <<pc, regLog, clock, renders, tmpl, pos, buf, calls, result, observed>>

\* construction, then render calls of every template while the clock runs
Next ==
    \/ register_generators
    \/ Tick
    \/ RenderCall(Templates, MaxRenders)
    \/ RenderNode
    \/ RenderReturn
    \/ UtcNowAfterRender

Spec == Init /\ [][Next]_vars

(* ------- renders interleaved with get_generators and its callers ------- *)
RegistryTemplates == {TestTemplate, ErrAfterOutput, PanicAfterOutput, SyntaxErrorTemplate,
                      <<UnknownCall>>}

NextRegistry ==
    \/ register_generators
    \/ RenderCall(RegistryTemplates, MaxRegistryRenders)
    \/ RenderNode
    \/ RenderReturn
    \/ GetGenerators
    \/ MutateSnapshot

SpecRegistry == Init /\ [][NextRegistry]_vars

(* ------------ register_generator called in any order and number -------- *)
RegNames == {"date", "hash"}
RegDescs == {"Current date", "other"}
RegFns == {"date", "now", "hash"}

\* one call register_generator(name, desc, function)
RegisterGenerator ==
    /\ pc = "registering"
    /\ Len(regLog) < MaxRegs
    /\ \E name \in RegNames, desc \in RegDescs, fn \in RegFns :
         /\ self' = register_generator(self, name, desc, fn)
         /\ regLog' = Append(regLog, [name |-> name, desc |-> desc, fn |-> fn])
    /\ UNCHANGED <<pc, clock, renders, tmpl, pos, buf, calls, result, observed, snapshot>>

NextRegister == RegisterGenerator

SpecRegister == Init /\ [][NextRegister]_vars

(* ======================= properties of the renderer =================== *)
RECURSIVE Substituted(_, _)
\* the template with every placeholder replaced by the value its call returned
Substituted(t, cs) ==
    IF t = <<>> THEN <<>>
    ELSE IF Head(t).k = "text" THEN Head(t).text \o Substituted(Tail(t), cs)
    ELSE IF cs = <<>> THEN <<"?">>
    ELSE Head(cs).out.val \o Substituted(Tail(t), Tail(cs))

CallNodes(t) == {i \in 1..Len(t) : t[i].k = "call"}
CallIdx == 1..Len(calls)
\* a render call has returned or unwound
RenderEnded == renders > 0 /\ pc \in {"ready", "aborted"}
SomeCallErr == \E i \in CallIdx : calls[i].out.kind = "err"
SomeCallPanic == \E i \in CallIdx : calls[i].out.kind = "panic"
UnknownName == \E i \in CallNodes(tmpl) : tmpl[i].name \notin DOMAIN self.tera.functions

\* the part of C1 that the code keeps: a success is the full substitution, a
\* syntax error or a generator's Err is a RenderError, nothing partial comes back
AllOrNothing ==
    /\ result.kind = "ok" =>
         /\ ~HasSyntaxError(tmpl)
         /\ Cardinality(CallNodes(tmpl)) = Len(calls)
         /\ \A i \in CallIdx : calls[i].out.kind = "ok"
         /\ result.doc = Substituted(tmpl, calls)
    /\ (HasSyntaxError(tmpl) \/ SomeCallErr) => result.kind = "err"
    /\ result.kind # "ok" => result.doc = <<>>

\* C1 as stated: every render call ends with the fully substituted string or with
\* a RenderError returned to the caller, the latter whenever the engine reports a
\* syntax error or a generator fails; no partial document is returned.
C1_RenderEndsOkOrErr ==
    RenderEnded => /\ result.kind \in {"ok", "err"}
                   /\ AllOrNothing

\* C1 amended: every render call ends with the fully substituted string, with a
\* RenderError, or with a panic unwinding out of render when a generator panics;
\* a syntax error or a generator's Err gives the RenderError, a panic happens only
\* when a generator panicked, and no partial document is returned in any case.
C1_AllOrNothing ==
    RenderEnded => /\ result.kind \in {"ok", "err", "panic"}
                   /\ result.kind = "panic" <=> SomeCallPanic
                   /\ result.kind = "panic" <=> pc = "aborted"
                   /\ AllOrNothing

\* a render that had produced output when a generator returned Err
C1_Witness ==
    /\ RenderEnded
    /\ tmpl = ErrAfterOutput
    /\ Len(calls) = 2
    /\ calls[1].out.kind = "ok"
    /\ calls[2].out.kind = "err"
    /\ result.kind = "err"

(* ------------------------------- date() ------------------------------- *)
IsDateNoArg(c) == c.fn = "date" /\ c.args.sub_rnd_days.t = "absent"
DateLiteral == <<"d", "a", "t", "e", "(", ")">>
HashLiteral == <<"h", "a", "s", "h", "(", ")">>
TestRendered == pc = "ready" /\ tmpl = TestTemplate /\ result.kind = "ok"

IsDateCall(c) == c.fn = "date" /\ c.args.sub_rnd_days.t # "absent"
DaysArg(c) == c.args.sub_rnd_days

C4_DateOnlyTypedError ==
    \A i \in CallIdx : IsDateCall(calls[i]) =>
        /\ calls[i].out.kind # "panic"
        /\ calls[i].out.kind = "err" <=> DaysArg(calls[i]).t # "int"
        /\ DaysArg(calls[i]).t = "int" =>
              /\ calls[i].out.kind = "ok"
              /\ \E k \in 0..(DaysArg(calls[i]).n - 1) :
                    ParseIso(calls[i].out.val) = calls[i].clk - k * SecsPerDay

(* ------------------------------- chance ------------------------------- *)
RangeArg(c) == c.args.range
OptionsArg(c) == c.args.options
RangeOk(c) == RangeArg(c).t = "int" /\ RangeArg(c).n > 0
OptionsStr(c) == OptionsArg(c).t = "str"
Opts(c) == split(OptionsArg(c).s)

\* C5: with a positive integer range R and exactly two options, chance returns
\* the first option iff the draw from [0, R) is 0 and the second option for every
\* other draw; with R = 1 it always returns the first.
C5_ChanceFirstIffZero ==
    \A i \in CallIdx :
        (calls[i].fn = "chance" /\ RangeOk(calls[i]) /\ OptionsStr(calls[i])
            /\ Len(Opts(calls[i])) = 2) =>
            LET c == calls[i]
            IN  /\ c.out.kind = "ok"
                /\ c.draw \in 0..(RangeArg(c).n - 1)
                /\ c.draw = 0 => c.out.val = Opts(c)[1]
                /\ c.draw # 0 => c.out.val = Opts(c)[2]
                /\ Opts(c)[1] # Opts(c)[2] => (c.out.val = Opts(c)[1] <=> c.draw = 0)
                /\ RangeArg(c).n = 1 => c.out.val = Opts(c)[1]

\* the largest draw of the largest range picks the second option
C5_Witness ==
    \E i \in CallIdx :
        /\ calls[i].fn = "chance"
        /\ RangeArg(calls[i]) = IntV(MaxRange)
        /\ OptionsArg(calls[i]) = StrV(<<"a", "|", "b">>)
        /\ calls[i].draw = MaxRange - 1
        /\ calls[i].out = Ok(<<"b">>)

(* ------------------------------ randomint ----------------------------- *)
\* C6: for N >= 1, randomint(range=N) returns the decimal string of an integer v
\* with 0 <= v < N.
C6_RandomIntInRange ==
    \A i \in CallIdx :
        (calls[i].fn = "randomint" /\ RangeOk(calls[i])) =>
            LET c == calls[i]
            IN  /\ c.out.kind = "ok"
                /\ IsDecimal(c.out.val)
                /\ Len(c.out.val) > 1 => c.out.val[1] # "0"
                /\ ParseNat(c.out.val) = c.draw
                /\ ParseNat(c.out.val) >= 0
                /\ ParseNat(c.out.val) < RangeArg(c).n

\* a draw of two decimal digits
C6_Witness ==
    \E i \in CallIdx :
        /\ calls[i].fn = "randomint"
        /\ RangeArg(calls[i]) = IntV(TwoDigitRange)
        /\ calls[i].out = Ok(<<"1", "0">>)

(* ---------------------------- random_value ---------------------------- *)
\* C7: random_value never fails: for a string options it returns one element of
\* the list split on '|'; when options is absent, not a string or splits to an
\* empty list it returns the empty string.
C7_RandomValueNeverFails ==
    \A i \in CallIdx :
        calls[i].fn = "random_value" =>
            LET c == calls[i]
            IN  /\ c.out.kind = "ok"
                /\ OptionsStr(c) /\ Opts(c) # <<>> =>
                      \E j \in 1..Len(Opts(c)) : c.draw = j - 1 /\ c.out.val = Opts(c)[j]
                /\ (~OptionsStr(c) \/ Opts(c) = <<>>) => c.out.val = <<>>

\* the last of three options is returned
C7_Witness ==
    \E i \in CallIdx :
        /\ calls[i].fn = "random_value"
        /\ OptionsArg(calls[i]) = StrV(<<"a", "|", "b", "|", "c">>)
        /\ calls[i].out = Ok(<<"c">>)

(* ---------------------------- the registry ---------------------------- *)
\* the last entry of a registration log made under a name
LastReg(log, name) ==
    log[CHOOSE i \in 1..Len(log) :
            /\ log[i].name = name
            /\ \A j \in (i + 1)..Len(log) : log[j].name # name]
LogNames(log) == {log[i].name : i \in 1..Len(log)}
\* the name-to-description map and the callable set that construction leaves
BuiltDescs == [n \in LogNames(GeneratorTable) |-> LastReg(GeneratorTable, n).desc]
BuiltFns == [n \in LogNames(GeneratorTable) |-> LastReg(GeneratorTable, n).fn]

\* C8: after create_renderer returns, whatever renders run (successful or
\* failing) and whatever a caller does to a map returned by get_generators, the
\* registry's name-to-description map and the callable generators stay as built.
C8_RegistryImmutable ==
    pc # "registering" =>
        /\ self.generators = BuiltDescs
        /\ self.tera.functions = BuiltFns
        /\ get_generators(self).map = BuiltDescs
        /\ (snapshot.some /\ ~snapshot.mutated) => snapshot.map = BuiltDescs

\* a caller changed its copy, and the last of the renders failed
C8_Witness ==
    /\ snapshot.some
    /\ snapshot.mutated
    /\ snapshot.map # BuiltDescs
    /\ renders = MaxRegistryRenders
    /\ pc = "ready"
    /\ result.kind = "err"

(* -------------------- chance / randomint preconditions ----------------- *)
RangeBad(c) == RangeArg(c).t = "absent" \/ ~as_u64(RangeArg(c)).some \/ RangeArg(c).n = 0
OptionsMissing(c) == OptionsArg(c).t = "absent" \/ ~as_str(OptionsArg(c)).some
Malformed(c) ==
    \/ c.fn \in {"chance", "randomint"} /\ RangeBad(c)
    \/ c.fn = "chance" /\ (OptionsMissing(c) \/ Len(Opts(c)) # 2)

\* C9 as stated: every chance or randomint call with missing or malformed
\* arguments (range absent, not a non-negative integer, or 0; for chance also
\* options absent, not a string, or not splitting to exactly 2 elements) panics:
\* it returns no value on any draw and no typed error.
C9_MalformedAlwaysPanics ==
    \A i \in CallIdx : Malformed(calls[i]) => calls[i].out.kind = "panic"

\* C9 amended: such a call never returns a typed error; it panics when range is
\* absent, not a non-negative integer or 0, and for chance when options is absent
\* or not a string.  A chance call with a valid range whose options split to a
\* number of elements other than 2 panics only on a non-zero draw with a single
\* element; otherwise it returns the first element (draw 0) or the second.
C9_MalformedPanicsOrPicks ==
    \A i \in CallIdx : Malformed(calls[i]) =>
        LET c == calls[i]
        IN  /\ c.out.kind # "err"
            /\ RangeBad(c) => c.out.kind = "panic"
            /\ (c.fn = "chance" /\ OptionsMissing(c)) => c.out.kind = "panic"
            /\ (c.fn = "chance" /\ ~RangeBad(c) /\ ~OptionsMissing(c)) =>
                  /\ c.out.kind = "panic" <=> (c.draw # 0 /\ Len(Opts(c)) < 2)
                  /\ (c.draw = 0) => c.out = Ok(Opts(c)[1])
                  /\ (c.draw # 0 /\ Len(Opts(c)) >= 2) => c.out = Ok(Opts(c)[2])

\* chance with a single option panicked on a non-zero draw, ending the render
C9_Witness ==
    /\ pc = "aborted"
    /\ \E i \in CallIdx :
          /\ calls[i].fn = "chance"
          /\ RangeArg(calls[i]) = IntV(2)
          /\ OptionsArg(calls[i]) = StrV(<<"a">>)
          /\ calls[i].draw = 1
          /\ calls[i].out.kind = "panic"

(* -------------------------- register_generator ------------------------ *)
\* C10: after any sequence of register_generator calls the description map and
\* the engine's functions have the same names, those registered so far (none is
\* removed), each holding the description and function of its latest registration.
C10_LastWriteWins ==
    /\ DOMAIN self.generators = DOMAIN self.tera.functions
    /\ DOMAIN self.generators = LogNames(regLog)
    /\ \A n \in LogNames(regLog) :
          /\ self.generators[n] = LastReg(regLog, n).desc
          /\ self.tera.functions[n] = LastReg(regLog, n).fn

\* a name registered again with another description and function
C10_Witness ==
    /\ Len(regLog) = 3
    /\ regLog[1].name = regLog[3].name
    /\ regLog[2].name # regLog[1].name
    /\ regLog[1].desc # regLog[3].desc
    /\ regLog[1].fn # regLog[3].fn

====
